---- MODULE Spec2Model ----
(***************************************************************************)
(* A model of arterial_net/models/models.py: the model factory get_model,  *)
(* the graph-attention block GATv2Layer and the three-branch network       *)
(* ArterialNet (construction and forward pass).                            *)
(*                                                                         *)
(* Tensors are modelled by their shape and provenance; the framework's     *)
(* layers (nn.Linear, GATv2Conv, pooling, torch.cat) by their effect on    *)
(* shapes and by the shape errors they raise.  Python's sequence index     *)
(* idx = 0..n-1 is the TLA+ index 1..n.                                    *)
(***************************************************************************)
EXTENDS Integers, Sequences, FiniteSets, TLC

VARIABLES
    net,      \* the ArterialNet the caller holds (NoModel before get_model returned one)
    ret,      \* outcome of the last get_model call
    prev,     \* outcome of the get_model call before it
    ncalls,   \* number of get_model calls made
    frame,    \* locals of the last ArterialNet.forward call when it returned or raised
    layer,    \* a stand-alone GATv2Layer
    calls     \* the last two GATv2Layer.forward calls made on layer

vars == <<net, ret, prev, ncalls, frame, layer, calls>>

(***************************************************************************)
(* Bounds of the model.                                                    *)
(***************************************************************************)
MaxDim == 2       \* hidden widths and edge widths range over 1..MaxDim
MaxLayers == 2    \* layer counts range over 0..MaxLayers
MaxBatch == 2     \* samples per batch range over 1..MaxBatch

Dims == 1..MaxDim
LayerCounts == 0..MaxLayers
Batches == 1..MaxBatch

(***************************************************************************)
(* Python values.                                                          *)
(***************************************************************************)
None == [none |-> TRUE]
Some(v) == [val |-> v]
Unset == [unset |-> TRUE]                      \* a local not yet assigned
Undefined == [undefined |-> TRUE]              \* an attribute never set
NoModel == [no_model |-> TRUE]
NoRet == [no_call |-> TRUE]
NoFrame == [no_forward |-> TRUE]
NoLayer == [no_layer |-> TRUE]

Tensor(rows, cols, src, pool) == [rows |-> rows, cols |-> cols, src |-> src, pool |-> pool]
Raised(exc, at) == [exception |-> exc, at |-> at]
IsRaised(v) == "exception" \in DOMAIN v

(***************************************************************************)
(* str() of the argument types that '{}'.format renders.                   *)
(* A float is m * 10^-k with m in 1..9, rendered positionally.             *)
(***************************************************************************)
Float(m, k) == [mant |-> m, exp10 |-> k]

RECURSIVE Zeros(_)
Zeros(n) == IF n <= 0 THEN "" ELSE "0" \o Zeros(n - 1)

str_int(n) == ToString(n)
str_bool(b) == IF b THEN "True" ELSE "False"
str_float(f) == "0." \o Zeros(f.exp10 - 1) \o ToString(f.mant)

(***************************************************************************)
(* get_model: the name, lines 39-46.                                       *)
(***************************************************************************)
model_name(args) ==
    LET base == args.base_model_name
                \o "_bs-" \o str_int(args.batch_size)
                \o "_te-" \o str_int(args.total_epochs)
                \o "_hc-" \o str_int(args.hidden_channels)
                \o "_hcd-" \o str_int(args.hidden_channels_dense)
                \o "_op-" \o args.optimizer
                \o "_lr-" \o str_float(args.learning_rate)
                \o "_lrs-" \o args.lr_scheduler
                \o "_ngl-" \o str_int(args.num_global_layers)
                \o "_nsl-" \o str_int(args.num_segment_layers)
                \o "_ndl-" \o str_int(args.num_dense_layers)
                \o "_agg-" \o args.aggregation
                \o "_drop-" \o str_float(args.dropout)
                \o "_wl-" \o str_bool(args.weighted_loss)
                \o "_os-" \o str_bool(args.oversampling)
                \o "_rs-" \o str_int(args.random_state)
                \o "_trs-" \o str_int(args.test_random_state)
        cls == IF args.is_classification THEN base \o "_class" ELSE base
    IN  IF args.tag # None THEN cls \o "_tag-" \o args.tag.val ELSE cls

(***************************************************************************)
(* GATv2Layer.__init__, lines 80-85.                                       *)
(***************************************************************************)
GATv2Layer_init(in_channels, out_channels, edge_dim, dropout_rate) ==
    [in_channels |-> in_channels, out_channels |-> out_channels,
     edge_dim |-> edge_dim, dropout_rate |-> dropout_rate]

(***************************************************************************)
(* ArterialNet.__init__, lines 113-181.  kw is the keyword arguments.      *)
(***************************************************************************)
Linear(in_features, out_features) ==
    [in_features |-> in_features, out_features |-> out_features]

\* sum([...]) of a list of Python booleans
RECURSIVE BoolSum(_)
BoolSum(bs) == IF bs = <<>> THEN 0
               ELSE (IF Head(bs) THEN 1 ELSE 0) + BoolSum(Tail(bs))

global_path(kw) ==
    IF kw.num_global_layers > 0
    THEN [layers |-> [idx \in 1..kw.num_global_layers |->
            Linear(IF idx = 1 THEN kw.global_in_dim ELSE kw.hidden_dim, kw.hidden_dim)]]
    ELSE None

segment_path(kw) ==
    IF kw.num_segment_layers > 0
    THEN [layers |-> [idx \in 1..kw.num_segment_layers |->
            GATv2Layer_init(IF idx = 1 THEN kw.segment_node_in_dim ELSE kw.hidden_dim,
                            kw.hidden_dim, kw.segment_edge_in_dim, kw.dropout)]]
    ELSE None

\* variant: later dense blocks read the shared hidden width
dense_path_shared_width(kw) ==
    IF kw.num_dense_layers > 0
    THEN [layers |-> [idx \in 1..kw.num_dense_layers |->
            GATv2Layer_init(IF idx = 1 THEN kw.dense_node_in_dim ELSE kw.hidden_dim,
                            kw.hidden_dim_dense, None, kw.dropout)]]
    ELSE None

dense_path(kw) ==
    IF kw.num_dense_layers > 0
    THEN [layers |-> [idx \in 1..kw.num_dense_layers |->
            GATv2Layer_init(IF idx = 1 THEN kw.dense_node_in_dim ELSE kw.hidden_dim_dense,
                            kw.hidden_dim_dense, None, kw.dropout)]]
    ELSE None

\* variant: the dense branch counted with the shared hidden width
classification_in_features_one_width(kw) ==
    kw.hidden_dim * BoolSum(<<kw.num_global_layers > 0, kw.num_segment_layers > 0,
                              kw.num_dense_layers > 0>>)

\* line 154: the fan-in of the classification head
classification_in_features(kw) ==
    kw.hidden_dim * BoolSum(<<kw.num_global_layers > 0, kw.num_segment_layers > 0>>)
    + kw.hidden_dim_dense * BoolSum(<<kw.num_dense_layers > 0>>)

\* line 166: the fan-in of the regression head
regression_in_features(kw) ==
    kw.hidden_dim * BoolSum(<<kw.num_global_layers > 0, kw.num_segment_layers > 0,
                              kw.num_dense_layers > 0>>)

output_layer(kw) ==
    IF kw.is_classification
    THEN [linear |-> Linear(classification_in_features(kw), kw.out_dim), softmax |-> TRUE]
    ELSE [linear |-> Linear(regression_in_features(kw), kw.out_dim), softmax |-> FALSE]

\* variant: mean and max exchanged
aggregation_swapped(name) ==
    CASE name = "add" -> Some("global_add_pool")
      [] name = "mean" -> Some("global_max_pool")
      [] name = "max" -> Some("global_mean_pool")
      [] OTHER -> Undefined

\* lines 174-179: no branch of the if/elif chain sets the attribute for another value
aggregation(name) ==
    CASE name = "add" -> Some("global_add_pool")
      [] name = "mean" -> Some("global_mean_pool")
      [] name = "max" -> Some("global_max_pool")
      [] OTHER -> Undefined

\* nn.Linear(0, n): newer framework versions build the empty layer (with a
\* warning), older ones divide by the zero fan-in while initialising it.
LinearInitOutcomes(in_features) ==
    IF in_features > 0 THEN {"ok"} ELSE {"ok", "ZeroDivisionError"}

ArterialNet_init(kw) ==
    [global_in_dim |-> kw.global_in_dim,
     segment_node_in_dim |-> kw.segment_node_in_dim,
     segment_edge_in_dim |-> kw.segment_edge_in_dim,
     dense_node_in_dim |-> kw.dense_node_in_dim,
     hidden_dim |-> kw.hidden_dim,
     hidden_dim_dense |-> kw.hidden_dim_dense,
     out_dim |-> kw.out_dim,
     num_global_layers |-> kw.num_global_layers,
     num_segment_layers |-> kw.num_segment_layers,
     num_dense_layers |-> kw.num_dense_layers,
     aggregation_ |-> kw.aggregation,
     dropout |-> kw.dropout,
     is_classification |-> kw.is_classification,
     global_path |-> global_path(kw),
     segment_path |-> segment_path(kw),
     dense_path |-> dense_path(kw),
     output_layer |-> output_layer(kw),
     aggregation |-> aggregation(kw.aggregation)]

(***************************************************************************)
(* get_model, lines 39-77.  linear_init is the outcome of building the     *)
(* output layer's nn.Linear.                                               *)
(***************************************************************************)
\* variant: a single output whatever the mode
get_model_out_dim_scalar(args) == 1

\* line 68
get_model_out_dim(args) == IF args.is_classification THEN 2 ELSE 1

get_model_kwargs(args, dataset_description) ==
    [global_in_dim |-> dataset_description.num_global_features,
     segment_node_in_dim |-> dataset_description.num_segment_node_features,
     segment_edge_in_dim |-> dataset_description.num_segment_edge_features,
     dense_node_in_dim |-> dataset_description.num_dense_node_features,
     hidden_dim |-> args.hidden_channels,
     hidden_dim_dense |-> args.hidden_channels_dense,
     out_dim |-> get_model_out_dim(args),
     num_global_layers |-> args.num_global_layers,
     num_segment_layers |-> args.num_segment_layers,
     num_dense_layers |-> args.num_dense_layers,
     aggregation |-> args.aggregation,
     dropout |-> args.dropout,
     is_classification |-> args.is_classification]

get_model(args, dataset_description, device, linear_init) ==
    LET name == model_name(args)
    IN  IF args.base_model_name = "ArterialNet"
        THEN IF linear_init = "ok"
             THEN [status |-> "returned",
                   model |-> ArterialNet_init(get_model_kwargs(args, dataset_description)),
                   model_name |-> name]
             ELSE [status |-> linear_init, model |-> Unset, model_name |-> Unset]
        ELSE \* line 77 reads the local model, which no branch assigned
             [status |-> "UnboundLocalError", model |-> Unset, model_name |-> Unset]

(***************************************************************************)
(* GATv2Conv of torch_geometric, by shape: x must have the layer's input   *)
(* width; edge features need a layer built with that edge width.           *)
(***************************************************************************)
GATv2Conv(l, conv_args) ==
    LET x == conv_args[1]
        with_edges == Len(conv_args) = 3 /\ conv_args[3] # None
    IN  IF x.cols # l.in_channels
        THEN Raised("RuntimeError", "conv")
        ELSE IF with_edges /\ l.edge_dim = None
        THEN Raised("AssertionError", "conv")
        ELSE IF with_edges /\ conv_args[3].cols # l.edge_dim.val
        THEN Raised("RuntimeError", "conv")
        ELSE Tensor(x.rows, l.out_channels, x.src, x.pool)

(***************************************************************************)
(* GATv2Layer.forward, lines 87-95: the arguments the convolution is       *)
(* called with, and the block's result (leaky_relu, bn and dropout keep    *)
(* the shape).                                                             *)
(***************************************************************************)
\* variant: edge_attr handed on whatever edge_dim is
GATv2Layer_conv_args_always_edges(self, x, edge_index, edge_attr) ==
    <<x, edge_index, edge_attr>>

GATv2Layer_conv_args(self, x, edge_index, edge_attr) ==
    IF self.edge_dim # None
    THEN <<x, edge_index, edge_attr>>
    ELSE <<x, edge_index>>

GATv2Layer_forward(self, x, edge_index, edge_attr) ==
    LET conv_args == GATv2Layer_conv_args(self, x, edge_index, edge_attr)
    IN  [conv_args |-> conv_args, x |-> GATv2Conv(self, conv_args)]

(***************************************************************************)
(* ArterialNet.forward, lines 183-217.                                     *)
(***************************************************************************)
\* one block of global_path: nn.Linear, then shape-preserving layers
Sequential_forward(linear, x) ==
    IF x.cols # linear.in_features
    THEN Raised("RuntimeError", "global_path")
    ELSE Tensor(x.rows, linear.out_features, x.src, x.pool)

\* lines 189-190
RECURSIVE run_global_path(_, _, _)
run_global_path(layers, i, x) ==
    IF i > Len(layers) \/ IsRaised(x) THEN x
    ELSE run_global_path(layers, i + 1, Sequential_forward(layers[i], x))

\* lines 197-198 and 206-207; the dense loop passes no edge_attr (None)
RECURSIVE run_graph_path(_, _, _, _, _)
run_graph_path(layers, i, x, edge_index, edge_attr) ==
    IF i > Len(layers) \/ IsRaised(x) THEN x
    ELSE run_graph_path(layers, i + 1,
                        GATv2Layer_forward(layers[i], x, edge_index, edge_attr).x,
                        edge_index, edge_attr)

\* self.aggregation(x, batch), lines 199 and 208
pool(self, x, batch) ==
    IF IsRaised(x) THEN x
    ELSE IF self.aggregation = Undefined
    THEN Raised("AttributeError", "aggregation")
    ELSE Tensor(batch.num_graphs, x.cols, x.src, self.aggregation.val)

\* line 213: the list comprehension, then torch.cat along dim 1
RECURSIVE not_none(_)
not_none(xs) ==
    IF xs = <<>> THEN <<>>
    ELSE IF Head(xs) # None THEN <<Head(xs)>> \o not_none(Tail(xs))
    ELSE not_none(Tail(xs))

RECURSIVE sum_cols(_)
sum_cols(xs) == IF xs = <<>> THEN 0 ELSE Head(xs).cols + sum_cols(Tail(xs))

cat(xs) ==
    IF xs = <<>> \/ \E i, j \in DOMAIN xs : xs[i].rows # xs[j].rows
    THEN Raised("RuntimeError", "cat")
    ELSE [rows |-> xs[1].rows, cols |-> sum_cols(xs), blocks |-> xs]

\* line 216: nn.Linear, then nn.Softmax(dim=1) in classification mode
output_layer_forward(head, total_features) ==
    IF total_features.cols # head.linear.in_features
    THEN Raised("RuntimeError", "output_layer")
    ELSE [rows |-> total_features.rows, cols |-> head.linear.out_features,
          activation |-> IF head.softmax THEN "softmax" ELSE "none",
          input |-> total_features]

forward_global(self, data) ==
    IF self.global_path # None
    THEN run_global_path(self.global_path.layers, 1, data.global_data)
    ELSE None

forward_segment(self, data) ==
    IF self.segment_path # None
    THEN pool(self, run_graph_path(self.segment_path.layers, 1, data.segment_data.x,
                                   data.segment_data.edge_index,
                                   data.segment_data.edge_attr),
              data.segment_data.batch)
    ELSE None

forward_dense(self, data) ==
    IF self.dense_path # None
    THEN pool(self, run_graph_path(self.dense_path.layers, 1, data.dense_data.x,
                                   data.dense_data.edge_index, None),
              data.dense_data.batch)
    ELSE None

\* variant: segment before global
forward_concat_reordered(global_features, segment_x, dense_x) ==
    cat(not_none(<<segment_x, global_features, dense_x>>))

forward_concat(global_features, segment_x, dense_x) ==
    cat(not_none(<<global_features, segment_x, dense_x>>))

\* The frame of forward when it returns or raises: a local keeps Unset when
\* the call raised before assigning it.
ArterialNet_forward(self, data) ==
    LET f0 == [status |-> "returned", at |-> "", data |-> data,
               global_features |-> Unset, segment_x |-> Unset, dense_x |-> Unset,
               total_features |-> Unset, out |-> Unset, returned |-> Unset]
        g == forward_global(self, data)
        s == forward_segment(self, data)
        d == forward_dense(self, data)
        t == forward_concat(g, s, d)
        o == output_layer_forward(self.output_layer, t)
    IN  IF IsRaised(g) THEN [f0 EXCEPT !.status = g.exception, !.at = g.at]
        ELSE IF IsRaised(s)
        THEN [f0 EXCEPT !.status = s.exception, !.at = s.at, !.global_features = g]
        ELSE IF IsRaised(d)
        THEN [f0 EXCEPT !.status = d.exception, !.at = d.at, !.global_features = g,
                        !.segment_x = s]
        ELSE IF IsRaised(t)
        THEN [f0 EXCEPT !.status = t.exception, !.at = t.at, !.global_features = g,
                        !.segment_x = s, !.dense_x = d]
        ELSE IF IsRaised(o)
        THEN [f0 EXCEPT !.status = o.exception, !.at = o.at, !.global_features = g,
                        !.segment_x = s, !.dense_x = d, !.total_features = t]
        ELSE [f0 EXCEPT !.global_features = g, !.segment_x = s, !.dense_x = d,
                        !.total_features = t, !.out = o, !.returned = o]

(***************************************************************************)
(* Inputs: configurations, dataset descriptions, devices, batches.         *)
(***************************************************************************)
DatasetDescription(g, s, e, d) ==
    [num_global_features |-> g, num_segment_node_features |-> s,
     num_segment_edge_features |-> e, num_dense_node_features |-> d]

DatasetDescriptions ==
    {DatasetDescription(3, 4, None, 5),
     DatasetDescription(3, 4, Some(2), 5),
     DatasetDescription(4, 3, Some(1), 5)}

Devices == {"cpu", "cuda"}

Aggregations == {"add", "mean", "max", "sum"}

BaseModelNames == {"ArterialNet", "GraphUNet"}

DefaultArgs ==
    [base_model_name |-> "ArterialNet", batch_size |-> 16, total_epochs |-> 100,
     hidden_channels |-> 1, hidden_channels_dense |-> 1, optimizer |-> "adam",
     learning_rate |-> Float(1, 3), lr_scheduler |-> "plateau",
     num_global_layers |-> 1, num_segment_layers |-> 1, num_dense_layers |-> 1,
     aggregation |-> "max", dropout |-> Float(2, 1), weighted_loss |-> FALSE,
     oversampling |-> FALSE, random_state |-> 42, test_random_state |-> 7,
     is_classification |-> FALSE, tag |-> None]

\* the configurations of Spec: every field the model is built from varies
ModelArgs ==
    {[DefaultArgs EXCEPT !.base_model_name = b, !.hidden_channels = h,
                         !.hidden_channels_dense = hd, !.num_global_layers = ng,
                         !.num_segment_layers = ns, !.num_dense_layers = nd,
                         !.aggregation = agg, !.is_classification = c] :
        b \in BaseModelNames, h \in Dims, hd \in Dims, ng \in LayerCounts,
        ns \in LayerCounts, nd \in LayerCounts, agg \in Aggregations, c \in BOOLEAN}

\* a batch of batch_size samples whose widths follow a dataset description
Batch(batch_size, dd) ==
    [global_data |-> Tensor(batch_size, dd.num_global_features, "global_data", "none"),
     segment_data |->
        [x |-> Tensor(2 * batch_size, dd.num_segment_node_features, "segment_data.x", "none"),
         edge_index |-> [num_edges |-> 2 * batch_size],
         edge_attr |-> IF dd.num_segment_edge_features # None
                       THEN Tensor(2 * batch_size, dd.num_segment_edge_features.val,
                                   "segment_data.edge_attr", "none")
                       ELSE None,
         batch |-> [num_graphs |-> batch_size]],
     dense_data |->
        [x |-> Tensor(3 * batch_size, dd.num_dense_node_features, "dense_data.x", "none"),
         edge_index |-> [num_edges |-> 6 * batch_size],
         batch |-> [num_graphs |-> batch_size]]]

(***************************************************************************)
(* The state machine: a caller that builds a model with get_model and      *)
(* then evaluates it on batches.                                           *)
(***************************************************************************)
Init ==
    /\ net = NoModel
    /\ ret = NoRet
    /\ prev = NoRet
    /\ ncalls = 0
    /\ frame = NoFrame
    /\ layer = NoLayer
    /\ calls = <<>>

GetModel(args, dataset_description, device, linear_init) ==
    LET r == get_model(args, dataset_description, device, linear_init)
    IN  /\ ret' = [status |-> r.status, model_name |-> r.model_name, args |-> args,
                   dataset_description |-> dataset_description, device |-> device]
        /\ prev' = ret
        /\ ncalls' = ncalls + 1
        /\ net' = IF r.status = "returned" THEN r.model ELSE net
        /\ frame' = IF r.status = "returned" THEN NoFrame ELSE frame
        /\ UNCHANGED <<layer, calls>>

Forward(data) ==
    /\ net # NoModel
    /\ frame' = ArterialNet_forward(net, data)
    /\ UNCHANGED <<net, ret, prev, ncalls, layer, calls>>

\* the training script builds one model and evaluates it
BuildOnce ==
    /\ ncalls = 0
    /\ \E args \in ModelArgs, dd \in DatasetDescriptions, device \in Devices :
         \E linear_init \in LinearInitOutcomes(
                ArterialNet_init(get_model_kwargs(args, dd)).output_layer.linear.in_features) :
            GetModel(args, dd, device, linear_init)

Evaluate ==
    \E batch_size \in Batches, dd \in DatasetDescriptions : Forward(Batch(batch_size, dd))

Next == BuildOnce \/ Evaluate

Spec == Init /\ [][Next]_vars

(***************************************************************************)
(* SpecName: two get_model calls whose configurations differ in at most    *)
(* one field, on any dataset descriptions and devices.                     *)
(***************************************************************************)
Fields == DOMAIN DefaultArgs

FieldDomain(f) ==
    CASE f = "base_model_name" -> BaseModelNames
      [] f = "batch_size" -> {16, 32}
      [] f = "total_epochs" -> {100, 200}
      [] f = "hidden_channels" -> Dims
      [] f = "hidden_channels_dense" -> Dims
      [] f = "optimizer" -> {"adam", "sgd"}
      [] f = "learning_rate" -> {Float(1, 3), Float(1, 2)}
      [] f = "lr_scheduler" -> {"plateau", "cosine"}
      [] f = "num_global_layers" -> LayerCounts
      [] f = "num_segment_layers" -> LayerCounts
      [] f = "num_dense_layers" -> LayerCounts
      [] f = "aggregation" -> Aggregations
      [] f = "dropout" -> {Float(2, 1), Float(5, 1)}
      [] f = "weighted_loss" -> BOOLEAN
      [] f = "oversampling" -> BOOLEAN
      [] f = "random_state" -> {42, 4}
      [] f = "test_random_state" -> {7, 2}
      [] f = "is_classification" -> BOOLEAN
      [] f = "tag" -> {None, Some(""), Some("a"), Some("class")}

AltArgs ==
    [base_model_name |-> "ArterialNet", batch_size |-> 32, total_epochs |-> 200,
     hidden_channels |-> MaxDim, hidden_channels_dense |-> 1, optimizer |-> "sgd",
     learning_rate |-> Float(1, 2), lr_scheduler |-> "cosine",
     num_global_layers |-> 0, num_segment_layers |-> MaxLayers, num_dense_layers |-> 1,
     aggregation |-> "add", dropout |-> Float(5, 1), weighted_loss |-> TRUE,
     oversampling |-> TRUE, random_state |-> 4, test_random_state |-> 2,
     is_classification |-> TRUE, tag |-> Some("a")]

BaseArgs == {DefaultArgs, AltArgs}

\* the configurations that differ from args in at most one field
Neighbours(args) ==
    UNION {{[args EXCEPT ![f] = v] : v \in FieldDomain(f)} : f \in Fields}

DiffFields(a, b) == {f \in Fields : a[f] # b[f]}

Call(args) ==
    \E dd \in DatasetDescriptions, device \in Devices :
        \E linear_init \in LinearInitOutcomes(
               ArterialNet_init(get_model_kwargs(args, dd)).output_layer.linear.in_features) :
            GetModel(args, dd, device, linear_init)

FirstCall == ncalls = 0 /\ \E args \in BaseArgs : Call(args)

SecondCall == ncalls = 1 /\ \E args \in Neighbours(ret.args) : Call(args)

NextName == FirstCall \/ SecondCall

SpecName == Init /\ [][NextName]_vars

(***************************************************************************)
(* SpecLayer: one GATv2Layer and forward calls on it.                      *)
(***************************************************************************)
EdgeDims == {None} \cup {Some(e) : e \in Dims}

EdgeIndexes == {[num_edges |-> 2], [num_edges |-> 3]}

NewLayer ==
    \E in_channels \in Dims, out_channels \in Dims, edge_dim \in EdgeDims :
        /\ layer' = GATv2Layer_init(in_channels, out_channels, edge_dim, Float(2, 1))
        /\ calls' = <<>>
        /\ UNCHANGED <<net, ret, prev, ncalls, frame>>

LayerForward(x, edge_index, edge_attr) ==
    LET r == GATv2Layer_forward(layer, x, edge_index, edge_attr)
        call == [x |-> x, edge_index |-> edge_index, edge_attr |-> edge_attr,
                 conv_args |-> r.conv_args, result |-> r.x]
    IN  /\ layer # NoLayer
        /\ calls' = IF Len(calls) = 2 THEN <<calls[2], call>> ELSE Append(calls, call)
        /\ UNCHANGED <<net, ret, prev, ncalls, frame, layer>>

CallLayer ==
    \E cols \in Dims, edge_index \in EdgeIndexes :
        \E edge_attr \in {None} \cup
                {Tensor(edge_index.num_edges, e, "edge_attr", "none") : e \in Dims} :
            LayerForward(Tensor(2, cols, "x", "none"), edge_index, edge_attr)

NextLayer == NewLayer \/ CallLayer

SpecLayer == Init /\ [][NextLayer]_vars

(***************************************************************************)
(* Properties.                                                             *)
(***************************************************************************)
AnyActive(n) ==
    n.num_global_layers > 0 \/ n.num_segment_layers > 0 \/ n.num_dense_layers > 0

\* the sum of the hidden widths of the active branches
ActiveWidths(n) ==
    (IF n.num_global_layers > 0 THEN n.hidden_dim ELSE 0)
    + (IF n.num_segment_layers > 0 THEN n.hidden_dim ELSE 0)
    + (IF n.num_dense_layers > 0 THEN n.hidden_dim_dense ELSE 0)

ForwardReturned == frame # NoFrame /\ frame.status = "returned"

\* C1: in regression mode, with at least one branch active, the fan-in of the
\* output linear layer is hidden_dim per active global or segment branch plus
\* hidden_dim_dense for an active dense branch, before and after forward calls.
RegressionFanIn ==
    (net # NoModel /\ ~net.is_classification /\ AnyActive(net))
        => net.output_layer.linear.in_features = ActiveWidths(net)

\* C2: in classification mode, with at least one branch active, the fan-in of
\* the output linear layer is hidden_dim per active global or segment branch
\* plus hidden_dim_dense for an active dense branch, before and after forward
\* calls.
ClassificationFanIn ==
    (net # NoModel /\ net.is_classification /\ AnyActive(net))
        => net.output_layer.linear.in_features = ActiveWidths(net)

ClassificationFanInWitness ==
    /\ net # NoModel
    /\ net.is_classification
    /\ net.num_dense_layers > 0
    /\ net.num_global_layers > 0
    /\ net.hidden_dim # net.hidden_dim_dense
    /\ ForwardReturned

\* C3: a configuration with all three layer counts zero is rejected at
\* construction: no model with every branch disabled exists, and forward never
\* is where the empty fusion input is found.
AllDisabledRejected ==
    /\ net # NoModel => AnyActive(net)
    /\ frame # NoFrame => frame.at # "cat"

\* C4: the name get_model returns depends on the configuration only: two
\* calls with the same configuration return the same name, and two calls whose
\* configurations differ in exactly one field return different names.
NameFunctionOfConfig ==
    prev # NoRet =>
        /\ prev.status = "returned" /\ ret.status = "returned"
        /\ prev.args = ret.args => prev.model_name = ret.model_name
        /\ Cardinality(DiffFields(prev.args, ret.args)) = 1
              => prev.model_name # ret.model_name

\* The same, for the calls that return: the name computed at lines 39-46 is
\* injective in each single field.
NameFunctionOfConfigWhenReturned ==
    (prev # NoRet /\ prev.status = "returned" /\ ret.status = "returned") =>
        /\ prev.args = ret.args => prev.model_name = ret.model_name
        /\ Cardinality(DiffFields(prev.args, ret.args)) = 1
              => prev.model_name # ret.model_name

\* C5: a GATv2Layer built with edge_dim None calls its convolution with x and
\* edge_index only, so two forward calls that agree on x and edge_index give
\* the convolution the same arguments and the block the same result whatever
\* edge_attr is; a layer built with an edge_dim hands edge_attr on.
EdgeAttrIgnoredWithoutEdgeDim ==
    layer # NoLayer =>
        /\ layer.edge_dim = None =>
              /\ \A i \in DOMAIN calls : Len(calls[i].conv_args) = 2
              /\ \A i, j \in DOMAIN calls :
                    (calls[i].x = calls[j].x /\ calls[i].edge_index = calls[j].edge_index)
                        => /\ calls[i].conv_args = calls[j].conv_args
                           /\ calls[i].result = calls[j].result
        /\ layer.edge_dim # None =>
              \A i \in DOMAIN calls :
                 calls[i].conv_args = <<calls[i].x, calls[i].edge_index, calls[i].edge_attr>>

EdgeAttrIgnoredWitness ==
    /\ layer # NoLayer
    /\ layer.edge_dim = None
    /\ Len(calls) = 2
    /\ calls[1].x = calls[2].x
    /\ calls[1].edge_index = calls[2].edge_index
    /\ calls[1].edge_attr = None
    /\ calls[2].edge_attr # None
    /\ ~IsRaised(calls[2].result)

\* C6: a model built by get_model has an output head of width 2 followed by a
\* softmax in classification mode and of width 1 with no activation in
\* regression mode; what forward returns is the output of that head, one row
\* per sample.
OutputHead ==
    /\ (ret # NoRet /\ ret.status = "returned") =>
          /\ net.output_layer.linear.out_features
                = (IF ret.args.is_classification THEN 2 ELSE 1)
          /\ net.output_layer.softmax = ret.args.is_classification
    /\ ForwardReturned =>
          /\ frame.returned = frame.out
          /\ frame.returned.input = frame.total_features
          /\ frame.returned.rows = frame.data.global_data.rows
          /\ frame.returned.cols = (IF ret.args.is_classification THEN 2 ELSE 1)
          /\ frame.returned.activation
                = (IF ret.args.is_classification THEN "softmax" ELSE "none")

OutputHeadWitness ==
    /\ ForwardReturned
    /\ ret.args.is_classification
    /\ frame.returned.rows = 2
    /\ frame.returned.cols = 2

\* C7, as stated: for each of the aggregation methods sum, mean and max,
\* construction selects the corresponding pooling operation, forward applies
\* that operation to the segment and the dense branch, and a pooling operation
\* is always defined.
PoolName(name) ==
    CASE name \in {"sum", "add"} -> "global_add_pool"
      [] name = "mean" -> "global_mean_pool"
      [] name = "max" -> "global_max_pool"

PoolingSelected(names) ==
    (net # NoModel /\ net.aggregation_ \in names) =>
        /\ net.aggregation = Some(PoolName(net.aggregation_))
        /\ frame # NoFrame =>
              /\ frame.status # "AttributeError"
              /\ "pool" \in DOMAIN frame.segment_x
                    => frame.segment_x.pool = PoolName(net.aggregation_)
              /\ "pool" \in DOMAIN frame.dense_x
                    => frame.dense_x.pool = PoolName(net.aggregation_)

PoolingSumMeanMax == PoolingSelected({"sum", "mean", "max"})

\* C7, amended: the same for the configuration values add (sum pooling), mean
\* and max.
PoolingAddMeanMax == PoolingSelected({"add", "mean", "max"})

PoolingWitness ==
    /\ ForwardReturned
    /\ net.aggregation_ = "add"
    /\ "pool" \in DOMAIN frame.segment_x
    /\ "pool" \in DOMAIN frame.dense_x

\* C8: in forward a branch with layer count zero yields None and adds no
\* columns, and the fused tensor is the concatenation of the active branches'
\* embeddings in the order global, segment, dense.
ActiveSources(n) ==
    (IF n.num_global_layers > 0 THEN <<"global_data">> ELSE <<>>)
    \o (IF n.num_segment_layers > 0 THEN <<"segment_data.x">> ELSE <<>>)
    \o (IF n.num_dense_layers > 0 THEN <<"dense_data.x">> ELSE <<>>)

ActiveColumns(n) ==
    (IF n.num_global_layers > 0 THEN <<n.hidden_dim>> ELSE <<>>)
    \o (IF n.num_segment_layers > 0 THEN <<n.hidden_dim>> ELSE <<>>)
    \o (IF n.num_dense_layers > 0 THEN <<n.hidden_dim_dense>> ELSE <<>>)

FusedInOrder ==
    frame # NoFrame =>
        /\ frame.global_features # Unset
              => (frame.global_features = None <=> net.num_global_layers = 0)
        /\ frame.segment_x # Unset
              => (frame.segment_x = None <=> net.num_segment_layers = 0)
        /\ frame.dense_x # Unset
              => (frame.dense_x = None <=> net.num_dense_layers = 0)
        /\ frame.total_features # Unset =>
              LET blocks == frame.total_features.blocks
              IN  /\ Len(blocks) = Len(ActiveSources(net))
                  /\ \A i \in DOMAIN blocks :
                        /\ blocks[i].src = ActiveSources(net)[i]
                        /\ blocks[i].cols = ActiveColumns(net)[i]
                  /\ frame.total_features.cols = ActiveWidths(net)

FusedInOrderWitness ==
    /\ frame # NoFrame
    /\ frame.total_features # Unset
    /\ net.num_global_layers > 0
    /\ net.num_segment_layers = 0
    /\ net.num_dense_layers > 0
    /\ net.hidden_dim # net.hidden_dim_dense

\* C9: a branch with layer count n > 0 has exactly n blocks; block 0 reads the
\* branch's input width, every later block the branch's hidden width, and
\* every block writes the branch's hidden width, so each block reads what the
\* block before it wrote.
InWidth(block) ==
    IF "in_features" \in DOMAIN block THEN block.in_features ELSE block.in_channels

OutWidth(block) ==
    IF "out_features" \in DOMAIN block THEN block.out_features ELSE block.out_channels

PathShape(path, n, in_dim, hidden) ==
    IF n = 0 THEN path = None
    ELSE /\ path # None
         /\ Len(path.layers) = n
         /\ InWidth(path.layers[1]) = in_dim
         /\ \A i \in 1..n : OutWidth(path.layers[i]) = hidden
         /\ \A i \in 2..n : /\ InWidth(path.layers[i]) = hidden
                            /\ InWidth(path.layers[i]) = OutWidth(path.layers[i - 1])

PathWidths ==
    net # NoModel =>
        /\ PathShape(net.global_path, net.num_global_layers, net.global_in_dim,
                     net.hidden_dim)
        /\ PathShape(net.segment_path, net.num_segment_layers, net.segment_node_in_dim,
                     net.hidden_dim)
        /\ PathShape(net.dense_path, net.num_dense_layers, net.dense_node_in_dim,
                     net.hidden_dim_dense)

PathWidthsWitness ==
    /\ net # NoModel
    /\ net.num_global_layers > 1
    /\ net.num_segment_layers > 1
    /\ net.num_dense_layers > 1
    /\ net.hidden_dim # net.hidden_dim_dense

\* C10: whatever base_model_name is, get_model completes and returns a
\* constructed model with the name; stated here for the configurations with
\* an active branch, whose output layer every framework version builds.
GetModelReturns ==
    (ret # NoRet /\ AnyActive(ret.args)) => (ret.status = "returned" /\ net # NoModel)

====
